---- MODULE Spec2Model ----
(***************************************************************************)
(* Model of the DaggerHeart homebrew converters:                           *)
(*   zzz2rrr.py    work_zzz (flat zzz records -> rrr package) and          *)
(*                 work_rrr (rrr packages -> flat zzz records)             *)
(*   merge_zzz.py  merge_zzz_files and main                                *)
(*   zzz2keyword.py, zzz2rink.py   the command-line entry points           *)
(*                                                                         *)
(* TLA+ string literals are ASCII only, so every Chinese key, type name    *)
(* and character of the source is written as a pinyin token:               *)
(*   keys   名称 mingcheng   类型 leixing    原名 yuanming   领域 lingyu    *)
(*          描述 miaoshu     简介 jianjie    等级 dengji     回想 huixiang  *)
(*          属性 shuxing     主职 zhuzhi     子职业 zizhiye  施法 shifa     *)
(*          施法属性 shifashuxing   特性 texing   效果 xiaoguo              *)
(*          种族 zhongzu     类别 leibie     性格 xingge                    *)
(*          简略信息 jianluexinxi   领域1 lingyu1   领域2 lingyu2           *)
(*          初始生命点 chushishengmingdian   起始生命 qishishengming        *)
(*          初始闪避值 chushishanbizhi       起始闪避 qishishanbi           *)
(*          初始物品 chushiwupin             起始物品 qishiwupin            *)
(*          希望特性 xiwangtexing            职业特性 zhiyetexing           *)
(*          背景问题 beijingwenti            关系问题 guanxiwenti           *)
(*          位阶 weijie      种类 zhonglei   难度 nandu      经历 jingli    *)
(*          动机与战术 dongjiyuzhanshu       生命点 shengmingdian           *)
(*          重度伤害阈值 zhongdushanghaiyuzhi                               *)
(*          严重伤害阈值 yanzhongshanghaiyuzhi                              *)
(*          压力点 yalidian                  攻击命中 gongjimingzhong       *)
(*          攻击武器 gongjiwuqi              攻击范围 gongjifanwei          *)
(*          攻击伤害 gongjishanghai          攻击属性 gongjishuxing         *)
(*          原文 yuanwen     趋向 quxiang    潜在敌人 qianzaidiren          *)
(*          特性描述 texingmiaoshu           特性问题 texingwenti           *)
(*   A string value is a sequence of one-character tokens; a Chinese       *)
(*   character is its pinyin with a tone digit (基 ji1, 础 chu3, 石 shi2,  *)
(*   师 shi1, 施 shi1b, ...), the full-width colon is "fwcolon", the       *)
(*   full-width comma "fwcomma".                                           *)
(***************************************************************************)
EXTENDS Integers, Sequences, FiniteSets, TLC

\* ------------------------------------------------------------------------
\* Characters
\* ------------------------------------------------------------------------
FWColon == "fwcolon"
Colon == ":"
FWComma == "fwcomma"
Comma == ","
NL == "\n"
Space == " "
Plus == "+"
Amp == "&"
He == "he2"
Dash == "-"
Slash == "/"
Digits == <<"0", "1", "2", "3", "4", "5", "6", "7", "8", "9">>
DigitSet == {Digits[i] : i \in 1..Len(Digits)}

\* ------------------------------------------------------------------------
\* Python str operations on sequences of characters
\* ------------------------------------------------------------------------
MinOf(S) == CHOOSE i \in S : \A j \in S : i <= j

\* str.find + 1: the first position where sub occurs in s, 0 when it does not.
Find(s, sub) ==
  LET I == {i \in 1..(Len(s) - Len(sub) + 1) : SubSeq(s, i, i + Len(sub) - 1) = sub}
  IN IF I = {} THEN 0 ELSE MinOf(I)

Contains(s, sub) == Find(s, sub) # 0

\* str.replace(old, new): every non-overlapping occurrence, left to right.
RECURSIVE Replace(_, _, _)
Replace(s, old, new) ==
  LET i == Find(s, old)
  IN IF i = 0 THEN s
     ELSE SubSeq(s, 1, i - 1) \o new
          \o Replace(SubSeq(s, i + Len(old), Len(s)), old, new)

\* str.split(sep): at least one segment, empty segments kept.
RECURSIVE Split(_, _)
Split(s, sep) ==
  LET i == Find(s, sep)
  IN IF i = 0 THEN <<s>>
     ELSE <<SubSeq(s, 1, i - 1)>> \o Split(SubSeq(s, i + Len(sep), Len(s)), sep)

\* str.split(sep, 1) on a string that contains sep: <<before, after>>.
Split1(s, sep) ==
  LET i == Find(s, sep)
  IN <<SubSeq(s, 1, i - 1), SubSeq(s, i + Len(sep), Len(s))>>

\* str.isdigit(): non-empty and all digits.
IsDigit(s) == Len(s) > 0 /\ \A i \in 1..Len(s) : s[i] \in DigitSet

DigitVal(c) == (CHOOSE i \in 1..Len(Digits) : Digits[i] = c) - 1

RECURSIVE DigitsToNat(_)
DigitsToNat(s) ==
  IF s = <<>> THEN 0
  ELSE 10 * DigitsToNat(SubSeq(s, 1, Len(s) - 1)) + DigitVal(s[Len(s)])

RECURSIVE NatToDigits(_)
NatToDigits(n) ==
  IF n < 10 THEN <<Digits[n + 1]>>
  ELSE NatToDigits(n \div 10) \o <<Digits[(n % 10) + 1]>>

\* str.strip() for the whitespace of the alphabet (space, newline).
RECURSIVE LStrip(_)
LStrip(s) == IF s # <<>> /\ Head(s) \in {Space, NL} THEN LStrip(Tail(s)) ELSE s
RECURSIVE RStrip(_)
RStrip(s) ==
  IF s # <<>> /\ s[Len(s)] \in {Space, NL} THEN RStrip(SubSeq(s, 1, Len(s) - 1)) ELSE s
Strip(s) == RStrip(LStrip(s))

\* ------------------------------------------------------------------------
\* JSON values.  t is the Python type, s the characters of a str, n the
\* number of an int, m the items of a dict value (a sequence of <<key, str>>
\* pairs in insertion order).  A list value is only ever the empty list here.
\* ------------------------------------------------------------------------
Str(s) == [t |-> "str", s |-> s, n |-> 0, m |-> <<>>]
IntV(n) == [t |-> "int", s |-> <<>>, n |-> n, m |-> <<>>]
Map(m) == [t |-> "dict", s |-> <<>>, n |-> 0, m |-> m]
EmptyList == [t |-> "list", s |-> <<>>, n |-> 0, m |-> <<>>]
EmptyStr == Str(<<>>)
\* a list value: m holds its elements
List(l) == [t |-> "list", s |-> <<>>, n |-> 0, m |-> l]
\* True / False
BoolV(b) == [t |-> "bool", s |-> <<>>, n |-> IF b THEN 1 ELSE 0, m |-> <<>>]

\* Python truthiness ("if v:")
Truthy(v) ==
  CASE v.t = "str" -> v.s # <<>>
    [] v.t = "int" -> v.n # 0
    [] v.t = "dict" -> v.m # <<>>
    [] v.t = "list" -> v.m # <<>>
    [] v.t = "bool" -> v.n # 0
    [] OTHER -> FALSE

\* int(v) succeeds: an int, or a str that is, after stripping, an optional
\* sign followed by digits.
IntBody(s) ==
  LET u == Strip(s)
  IN IF u # <<>> /\ Head(u) \in {Plus, Dash} THEN Tail(u) ELSE u
IntOk(v) == v.t = "int" \/ (v.t = "str" /\ IsDigit(IntBody(v.s)))
IntOf(v) ==
  IF v.t = "int" THEN v.n
  ELSE LET u == Strip(v.s)
       IN IF Head(u) = Dash THEN 0 - DigitsToNat(IntBody(v.s))
          ELSE DigitsToNat(IntBody(v.s))

\* str(v) of a str or an int.
StrOf(v) ==
  IF v.t = "str" THEN v.s
  ELSE IF v.n < 0 THEN <<Dash>> \o NatToDigits(0 - v.n) ELSE NatToDigits(v.n)

\* dict.get(k, default)
Get(d, k, default) == IF k \in DOMAIN d THEN d[k] ELSE default

\* {k: v} | d  -  d.update(e): the keys of e win.
Update(d, e) == e @@ d

\* dict.pop(k, None)
Pop(d, k) == [x \in (DOMAIN d) \ {k} |-> d[x]]

\* ------------------------------------------------------------------------
\* Vocabulary of the source
\* ------------------------------------------------------------------------
ZhuZhi == Str(<<"zhu3", "zhi2">>)
ZhongZu == Str(<<"zhong3", "zu2">>)
SheQun == Str(<<"she4", "qun2">>)
ZiZhi == Str(<<"zi3", "zhi2">>)
LingYuKa == Str(<<"ling3", "yu4", "ka3">>)
JiChu == <<"ji1", "chu3">>
JiShi == <<"ji1", "shi2">>
JinJie == <<"jin4", "jie1">>
ZhuanJing == <<"zhuan1", "jing1">>
JingTong == <<"jing1", "tong1">>
DaShi == <<"da4", "shi1">>
BuKeShiFa == Str(<<"bu4", "ke3", "shi1b", "fa3">>)
NA == Str(<<"N", "/", "A">>)

\* ------------------------------------------------------------------------
\* work_zzz: one operator per branch of the loop body.  d is the input
\* record, id the identifier minted for it.
\* ------------------------------------------------------------------------
\* gen_uuid: an identifier never returned before (n counts the calls)
gen_uuid(n) == Str(NatToDigits(n))

type_(d) == Get(d, "leixing", EmptyStr)
name_(d) == Get(d, "mingcheng", EmptyStr)

\* AppendNew without the membership test
AppendNew_Always(lst, v) == Append(lst, v)

\* "x not in lst: lst.append(x)"
AppendNew(lst, v) ==
  IF \E i \in 1..Len(lst) : lst[i] = v THEN lst ELSE Append(lst, v)

\* the normalisation of the profession's domain string
DomainParts(s) ==
  Split(Replace(Replace(Replace(Replace(Replace(Replace(s,
          <<Amp>>, <<Plus>>), <<He>>, <<Plus>>), <<FWComma>>, <<Plus>>),
          <<Comma>>, <<Plus>>), <<Space>>, <<>>), <<Amp>>, <<Plus>>),
        <<Plus>>)

ZzzProfession(d, id) ==
  LET parts == DomainParts(Get(d, "lingyu", EmptyStr).s)
  IN ("id" :> id) @@ ("mingcheng" :> name_(d))
     @@ ("lingyu1" :> Str(parts[1]))
     @@ ("lingyu2" :> Str(IF Len(parts) > 1 THEN parts[2] ELSE <<>>))
     @@ ("qishishengming" :> IntV(IntOf(Get(d, "chushishengmingdian", EmptyStr))))
     @@ ("qishishanbi" :> IntV(IntOf(Get(d, "chushishanbizhi", EmptyStr))))
     @@ ("qishiwupin" :> Get(d, "chushiwupin", Str(<<Space>>)))
     @@ ("jianjie" :> Get(d, "jianjie", NA))
     @@ ("xiwangtexing" :> Get(d, "xiwangtexing", EmptyStr))
     @@ ("zhiyetexing" :> Get(d, "zhiyetexing", EmptyStr))
     @@ ("imageUrl" :> EmptyStr)

\* the feature lines of an ancestry description
Features(d) ==
  Split(Replace(Replace(Get(d, "miaoshu", EmptyStr).s, <<Colon>>, <<FWColon>>),
                <<NL, NL>>, <<NL>>),
        <<NL>>)

\* the entry of feature line number c (1 or 2) of an ancestry record
ZzzAncestry(d, id, c) ==
  LET feature == Split(Features(d)[c], <<FWColon>>)
  IN ("id" :> id) @@ ("mingcheng" :> Str(feature[1]))
     @@ ("zhongzu" :> name_(d))
     @@ ("jianjie" :> Get(d, "jianjie", NA))
     @@ ("xiaoguo" :> Str(feature[2]))
     @@ ("leibie" :> IntV(c))
     @@ ("imageUrl" :> EmptyStr)

\* the two entries of an ancestry record: premature return after the first
ZzzAncestryPair_FirstOnly(d, n) == <<ZzzAncestry(d, gen_uuid(n), 1)>>

\* the two entries appended for an ancestry record
ZzzAncestryPair(d, n) ==
  <<ZzzAncestry(d, gen_uuid(n), 1), ZzzAncestry(d, gen_uuid(n + 1), 2)>>

ZzzCommunity(d, id) ==
  LET feature == Get(d, "miaoshu", EmptyStr).s
      f == IF Contains(feature, <<FWColon>>) THEN Split1(feature, <<FWColon>>)
           ELSE <<feature, <<>>>>
  IN ("id" :> id) @@ ("mingcheng" :> name_(d))
     @@ ("texing" :> Str(f[1]))
     @@ ("jianjie" :> Get(d, "jianjie", NA))
     @@ ("miaoshu" :> Str(f[2]))
     @@ ("imageUrl" :> EmptyStr)

\* the tier vocabulary, zzz side to rrr side
TierToRrr(s) ==
  Replace(Replace(Replace(s, JiChu, JiShi), JinJie, ZhuanJing), JingTong, DaShi)

ZzzSubclass(d, id) ==
  LET nm == name_(d).s
      cast == Get(d, "shifashuxing", EmptyStr)
  IN ("id" :> id) @@ ("mingcheng" :> name_(d))
     @@ ("miaoshu" :> Get(d, "miaoshu", EmptyStr))
     @@ ("zhuzhi" :> Get(d, "zhuzhi", EmptyStr))
     @@ ("zizhiye" :> Str(IF Contains(nm, <<Dash>>) THEN Split(nm, <<Dash>>)[1] ELSE nm))
     @@ ("dengji" :> Str(TierToRrr(Get(d, "dengji", EmptyStr).s)))
     @@ ("shifa" :> IF Truthy(cast) THEN cast ELSE BuKeShiFa)
     @@ ("imageUrl" :> EmptyStr)

\* Recall without the coercion of a digit string
Recall_NoCoercion(recall) == recall

\* int(recall) if recall.isdigit() else recall
Recall(recall) == IF IsDigit(recall.s) THEN IntV(IntOf(recall)) ELSE recall

ZzzDomain(d, id) ==
  ("id" :> id) @@ ("mingcheng" :> name_(d))
  @@ ("lingyu" :> Get(d, "lingyu", EmptyStr))
  @@ ("dengji" :> IntV(IntOf(Get(d, "dengji", EmptyStr))))
  @@ ("shuxing" :> Get(d, "shuxing", EmptyStr))
  @@ ("huixiang" :> Recall(Get(d, "huixiang", EmptyStr)))
  @@ ("miaoshu" :> Get(d, "miaoshu", EmptyStr))
  @@ ("imageUrl" :> EmptyStr)

\* {f"item{i}": attr_parts[i] for i in range(len(attr_parts))}
Items(info) ==
  LET attr_parts == IF Truthy(info) THEN Split(info.s, <<Slash>>) ELSE <<>>
  IN [i \in 1..Len(attr_parts) |-> <<"item" \o ToString(i - 1), attr_parts[i]>>]

\* the input record as the catch-all branch leaves it: d["效果"] and
\* d["简略信息"] are assigned on the caller's dict
ZzzVariantInput(d) ==
  Update(d, ("xiaoguo" :> Get(d, "texing", EmptyStr))
            @@ ("jianluexinxi" :> Map(Items(Get(d, "jianluexinxi", EmptyStr)))))

ZzzVariant(d, id) ==
  Update(("id" :> id) @@ ("mingcheng" :> name_(d)), ZzzVariantInput(d))

IsStr(v) == v.t = "str"

\* the loop body raises on this record (ValueError from int(), IndexError
\* from a missing feature line or colon, AttributeError from a str method on
\* a value that is no str)
ZzzRaises(d) ==
  CASE type_(d) = ZhuZhi ->
         \/ ~IsStr(Get(d, "lingyu", EmptyStr))
         \/ ~IntOk(Get(d, "chushishengmingdian", EmptyStr))
         \/ ~IntOk(Get(d, "chushishanbizhi", EmptyStr))
    [] type_(d) = ZhongZu ->
         IF ~IsStr(Get(d, "miaoshu", EmptyStr)) \/ Len(Features(d)) < 2 THEN TRUE
         ELSE \E c \in 1..2 : Len(Split(Features(d)[c], <<FWColon>>)) < 2
    [] type_(d) = SheQun -> ~IsStr(Get(d, "miaoshu", EmptyStr))
    [] type_(d) = ZiZhi ->
         ~IsStr(name_(d)) \/ ~IsStr(Get(d, "dengji", EmptyStr))
    [] type_(d) = LingYuKa ->
         ~IntOk(Get(d, "dengji", EmptyStr)) \/ ~IsStr(Get(d, "huixiang", EmptyStr))
    [] OTHER ->
         LET info == Get(d, "jianluexinxi", EmptyStr) IN Truthy(info) /\ ~IsStr(info)

\* ------------------------------------------------------------------------
\* work_rrr: one operator per branch of the loop body.  d is an entry of a
\* category list of a package.
\* ------------------------------------------------------------------------
KeyOrder == <<"profession", "ancestry", "community", "subclass", "domain", "variant">>

RrrProfession(d) ==
  ("mingcheng" :> Get(d, "mingcheng", EmptyStr))
  @@ ("yuanming" :> Get(d, "id", EmptyStr))
  @@ ("leixing" :> ZhuZhi)
  @@ ("lingyu" :> Str(Get(d, "lingyu1", EmptyStr).s \o <<Plus>>
                      \o Get(d, "lingyu2", EmptyStr).s))
  @@ ("chushishanbizhi" :> Get(d, "qishishanbi", EmptyStr))
  @@ ("chushishengmingdian" :> Get(d, "qishishengming", EmptyStr))
  @@ ("xiwangtexing" :> Get(d, "xiwangtexing", EmptyStr))
  @@ ("zhiyetexing" :> Get(d, "zhiyetexing", EmptyStr))
  @@ ("beijingwenti" :> Get(d, "beijingwenti", EmptyList))
  @@ ("guanxiwenti" :> Get(d, "guanxiwenti", EmptyList))
  @@ ("jianjie" :> Get(d, "jianjie", EmptyStr))

\* d.get("名称", "") + "：" + d.get("效果", "")
FeatureLine(d) ==
  Get(d, "mingcheng", EmptyStr).s \o <<FWColon>> \o Get(d, "xiaoguo", EmptyStr).s

\* race_dict is an insertion-ordered dict keyed by the ancestry name; every
\* value r has r["名称"] = its key, so it is kept as the sequence of its values.
RaceIndex(rd, race_name) ==
  LET I == {i \in 1..Len(rd) : rd[i]["mingcheng"] = race_name}
  IN IF I = {} THEN 0 ELSE MinOf(I)

\* RrrAncestry that never finds the name in race_dict
RrrAncestry_NoMerge(rd, d) ==
  Append(rd, ("mingcheng" :> Get(d, "zhongzu", EmptyStr))
             @@ ("yuanming" :> EmptyStr)
             @@ ("leixing" :> ZhongZu)
             @@ ("jianjie" :> Get(d, "jianjie", EmptyStr))
             @@ ("miaoshu" :> Str(FeatureLine(d))))

RrrAncestry(rd, d) ==
  LET race_name == Get(d, "zhongzu", EmptyStr)
      i == RaceIndex(rd, race_name)
  IN IF i # 0
     THEN [rd EXCEPT ![i] =
             Update(@, "miaoshu" :> Str(@["miaoshu"].s \o <<NL>> \o FeatureLine(d)))]
     ELSE Append(rd, ("mingcheng" :> race_name)
                     @@ ("yuanming" :> EmptyStr)
                     @@ ("leixing" :> ZhongZu)
                     @@ ("jianjie" :> Get(d, "jianjie", EmptyStr))
                     @@ ("miaoshu" :> Str(FeatureLine(d))))

RrrCommunity(d) ==
  ("mingcheng" :> Get(d, "mingcheng", EmptyStr))
  @@ ("yuanming" :> Get(d, "id", EmptyStr))
  @@ ("leixing" :> SheQun)
  @@ ("jianjie" :> Get(d, "jianjie", EmptyStr))
  @@ ("xingge" :> EmptyStr)
  @@ ("miaoshu" :> Str(Get(d, "texing", EmptyStr).s \o <<FWColon>>
                       \o Get(d, "miaoshu", EmptyStr).s))

\* the tier vocabulary, rrr side to zzz side
TierToZzz(s) ==
  Replace(Replace(Replace(s, JiShi, JiChu), ZhuanJing, JinJie), DaShi, JingTong)

RrrSubclass(d) ==
  LET lv == TierToZzz(Get(d, "dengji", EmptyStr).s)
  IN ("mingcheng" :> Str(Get(d, "zizhiye", EmptyStr).s \o <<Dash>> \o lv))
     @@ ("yuanming" :> EmptyStr)
     @@ ("leixing" :> ZiZhi)
     @@ ("zhuzhi" :> Get(d, "zhuzhi", EmptyStr))
     @@ ("dengji" :> Str(lv))
     @@ ("shifashuxing" :> Get(d, "shifa", EmptyStr))
     @@ ("miaoshu" :> Get(d, "miaoshu", EmptyStr))

RrrDomain(d) ==
  ("mingcheng" :> Get(d, "mingcheng", EmptyStr))
  @@ ("yuanming" :> Get(d, "id", EmptyStr))
  @@ ("leixing" :> LingYuKa)
  @@ ("lingyu" :> Get(d, "lingyu", EmptyStr))
  @@ ("dengji" :> Str(StrOf(Get(d, "dengji", EmptyStr))))
  @@ ("shuxing" :> Get(d, "shuxing", EmptyStr))
  @@ ("huixiang" :> Str(StrOf(Get(d, "huixiang", EmptyStr))))
  @@ ("miaoshu" :> Get(d, "miaoshu", EmptyStr))

\* attr: every truthy item value followed by "/", the last "/" cut off
RECURSIVE JoinItems(_)
JoinItems(m) ==
  IF m = <<>> THEN <<>>
  ELSE (IF Head(m)[2] # <<>> THEN Head(m)[2] \o <<Slash>> ELSE <<>>)
       \o JoinItems(Tail(m))

\* Rejoin that keeps the trailing "/"
Rejoin_KeepsTrailingSlash(m) == JoinItems(m)

Rejoin(m) ==
  LET attr == JoinItems(m)
  IN IF attr # <<>> THEN SubSeq(attr, 1, Len(attr) - 1) ELSE <<>>

\* the package entry as the variant branch leaves it: "id" and "imageUrl"
\* popped, d["简略信息"] assigned the rejoined string
RrrVariantEntry(d) ==
  LET e == Pop(Pop(d, "id"), "imageUrl")
  IN Update(e, "jianluexinxi" :> Str(Rejoin(Get(e, "jianluexinxi", EmptyStr).m)))

\* {k: v for k, v in d.items() if v}
RrrVariant(d) ==
  LET e == RrrVariantEntry(d)
  IN [k \in {k \in DOMAIN e : Truthy(e[k])} |-> e[k]]

\* ------------------------------------------------------------------------
\* Input records (flat zzz records as json.load returns them)
\* ------------------------------------------------------------------------
MaxRecs == 2
MaxPkgs == 2

Profession1 ==
  ("mingcheng" :> Str(<<"a">>)) @@ ("leixing" :> ZhuZhi)
  @@ ("lingyu" :> Str(<<"b", Amp, "c">>))
  @@ ("chushishengmingdian" :> Str(<<"6">>))
  @@ ("chushishanbizhi" :> Str(<<"1", "0">>))
  @@ ("chushiwupin" :> Str(<<"d">>))
  @@ ("jianjie" :> Str(<<"e">>))
  @@ ("xiwangtexing" :> Str(<<"f">>))
  @@ ("zhiyetexing" :> Str(<<"g">>))

Ancestry(name, miaoshu) ==
  ("mingcheng" :> Str(name)) @@ ("leixing" :> ZhongZu)
  @@ ("jianjie" :> Str(<<"e">>)) @@ ("miaoshu" :> Str(miaoshu))

Ancestry1 == Ancestry(<<"p">>, <<"f", FWColon, "g", NL, "h", FWColon, "i">>)
Ancestry2 == Ancestry(<<"p">>, <<"j", FWColon, "k", FWColon, "l", NL, "m", FWColon>>)
Ancestry3 == Ancestry(<<"q">>, <<"f", FWColon, "g", NL, "h", FWColon, "i">>)
\* one feature line only: features[1] is an IndexError
AncestryShort == Ancestry(<<"p">>, <<"f", FWColon, "g">>)

Community1 ==
  ("mingcheng" :> Str(<<"a">>)) @@ ("leixing" :> SheQun)
  @@ ("jianjie" :> Str(<<"e">>))
  @@ ("miaoshu" :> Str(<<"f", FWColon, "g", FWColon, "h">>))

Subclass1 ==
  ("mingcheng" :> Str(<<"s", Dash>> \o JiChu)) @@ ("leixing" :> ZiZhi)
  @@ ("zhuzhi" :> Str(<<"a">>)) @@ ("dengji" :> Str(JiChu))
  @@ ("shifashuxing" :> EmptyStr) @@ ("miaoshu" :> Str(<<"d">>))

Domain(name, lingyu, huixiang) ==
  ("mingcheng" :> Str(name)) @@ ("leixing" :> LingYuKa)
  @@ ("lingyu" :> Str(lingyu)) @@ ("dengji" :> Str(<<"1">>))
  @@ ("shuxing" :> Str(<<"x">>)) @@ ("huixiang" :> Str(huixiang))
  @@ ("miaoshu" :> Str(<<"d">>))

Domain1 == Domain(<<"a">>, <<"b">>, <<"2">>)
Domain2 == Domain(<<"c">>, <<"b">>, <<"0", "1">>)
Domain3 == Domain(<<"a">>, <<"c">>, <<"x">>)

Variant1 ==
  ("mingcheng" :> Str(<<"a">>)) @@ ("leixing" :> Str(<<"w">>))
  @@ ("jianluexinxi" :> Str(<<"a", Slash, "b", Slash, "3">>))
  @@ ("texing" :> Str(<<"t">>))
\* no 类型 at all, and an empty segment in 简略信息
Variant2 ==
  ("mingcheng" :> Str(<<"b">>))
  @@ ("jianluexinxi" :> Str(<<"a", Slash, Slash, "b">>))
Variant3 ==
  ("mingcheng" :> Str(<<"c">>)) @@ ("leixing" :> Str(<<"w">>))
  @@ ("miaoshu" :> Str(<<"d">>))

\* a record that carries an id of its own
VariantWithId ==
  ("mingcheng" :> Str(<<"e">>)) @@ ("leixing" :> Str(<<"w">>))
  @@ ("id" :> Str(<<"7">>))

Records ==
  {Profession1, Ancestry1, Ancestry2, Ancestry3, AncestryShort, Community1,
   Subclass1, Domain1, Domain2, Domain3, Variant1, Variant2, Variant3,
   VariantWithId}

\* ------------------------------------------------------------------------
\* State
\* ------------------------------------------------------------------------
VARIABLES
  pc,         \* "idle", "zzz" (in work_zzz's loop), "rrr" (in work_rrr's
              \* loops), "done" (work_rrr returned), "raised"
  inputs,     \* the argument of every work_zzz call, as it was passed
  data,       \* work_zzz's argument as it is now
  dict_out,   \* work_zzz's dict_out
  nextId,     \* the number of identifiers gen_uuid has returned, plus one
  pkgs,       \* the packages returned so far: work_rrr's argument
  j,          \* the number of entries work_rrr's loops have passed
  out,        \* work_rrr's dict_out
  race_dict,  \* work_rrr's race_dict
  \* the command-line entry points (merge_zzz.py, zzz2keyword.py, zzz2rink.py)
  tool,       \* the entry point that runs: "merge", "keyword", "rink"
  path,       \* what its path argument names, as the file system holds it
  cpc,        \* "start", "merging" (in merge_zzz_files' loop), "exit"
  zzz_files,  \* merge: the contents of the files found, in discovery order
  nf,         \* merge: the number of files merge_zzz_files' loop has passed
  merged,     \* merge: merge_zzz_files' merged
  status,     \* the exit status of the process, once cpc = "exit"
  written     \* the output file: whether it was written, and its list

convVars == <<pc, inputs, data, dict_out, nextId, pkgs, j, out, race_dict>>
cliVars == <<tool, path, cpc, zzz_files, nf, merged, status, written>>
vars == <<convVars, cliVars>>

\* the package name when input_path is empty
PackageName == Str(<<"kuo4", "zhan3", "bao1">>)
\* datetime.now().strftime("%Y%m%d_%H%M%S"): the same clock reading throughout
Version == Str(<<"Y", "m", "d", "_", "H", "M", "S">>)

NewPackage ==
  [name |-> PackageName, version |-> Version, description |-> EmptyStr,
   author |-> EmptyStr,
   customFieldDefinitions |->
     [professions |-> <<>>, ancestries |-> <<>>, communities |-> <<>>,
      domains |-> <<>>, variants |-> <<>>],
   profession |-> <<>>, ancestry |-> <<>>, community |-> <<>>,
   subclass |-> <<>>, domain |-> <<>>, variant |-> <<>>]

\* the records passed to work_zzz so far, over all calls
RECURSIVE TotalLen(_)
TotalLen(ss) == IF ss = <<>> THEN 0 ELSE Len(Head(ss)) + TotalLen(Tail(ss))

\* dict_out after one pass of work_zzz's loop body over record d
ZzzBody(do, d, n) ==
  CASE type_(d) = ZhuZhi ->
         [do EXCEPT !.customFieldDefinitions.professions = AppendNew(@, name_(d)),
                    !.profession = Append(@, ZzzProfession(d, gen_uuid(n)))]
    [] type_(d) = ZhongZu ->
         [do EXCEPT !.customFieldDefinitions.ancestries = AppendNew(@, name_(d)),
                    !.ancestry = @ \o ZzzAncestryPair(d, n)]
    [] type_(d) = SheQun ->
         [do EXCEPT !.customFieldDefinitions.communities = AppendNew(@, name_(d)),
                    !.community = Append(@, ZzzCommunity(d, gen_uuid(n)))]
    [] type_(d) = ZiZhi ->
         [do EXCEPT !.subclass = Append(@, ZzzSubclass(d, gen_uuid(n)))]
    [] type_(d) = LingYuKa ->
         [do EXCEPT !.customFieldDefinitions.domains =
                       AppendNew(@, Get(d, "lingyu", EmptyStr)),
                    !.domain = Append(@, ZzzDomain(d, gen_uuid(n)))]
    [] OTHER ->
         [do EXCEPT !.customFieldDefinitions.variants = AppendNew(@, type_(d)),
                    !.variant = Append(@, ZzzVariant(d, gen_uuid(n)))]

\* the record d as one pass of the loop body leaves it in the caller's list
ZzzInputAfter(d) ==
  IF type_(d) \in {ZhuZhi, ZhongZu, SheQun, ZiZhi, LingYuKa} THEN d
  ELSE ZzzVariantInput(d)

ZzzPasses(d) == ~ZzzRaises(d)

IdsMinted(d) == IF type_(d) = ZhongZu THEN 2 ELSE 1

\* ------------------------------------------------------------------------
\* Actions
\* ------------------------------------------------------------------------
NotWritten == [is |-> FALSE, list |-> <<>>]

\* no converter call is under way
ConvIdle ==
  /\ pc = "idle"
  /\ inputs = <<>>
  /\ data = <<>>
  /\ dict_out = NewPackage
  /\ nextId = 1
  /\ pkgs = <<>>
  /\ j = 0
  /\ out = <<>>
  /\ race_dict = <<>>

\* no entry point is running
CliIdle ==
  /\ tool = "none"
  /\ path = [exists |-> FALSE, entries |-> <<>>, content |-> [kind |-> "bad", items |-> <<>>]]
  /\ cpc = "exit"
  /\ zzz_files = <<>>
  /\ nf = 0
  /\ merged = <<>>
  /\ status = 0
  /\ written = NotWritten

Init == ConvIdle /\ CliIdle

\* work_zzz is called: dict_out is initialised
ZzzCall ==
  /\ pc = "idle"
  /\ Len(pkgs) < MaxPkgs
  /\ pc' = "zzz"
  /\ inputs' = Append(inputs, <<>>)
  /\ data' = <<>>
  /\ dict_out' = NewPackage
  /\ UNCHANGED <<nextId, pkgs, j, out, race_dict>>
  /\ UNCHANGED cliVars

\* one pass of "for d in data" over the next record d of the argument
ZzzStep(d) ==
  /\ pc = "zzz"
  /\ TotalLen(inputs) < MaxRecs
  /\ ZzzPasses(d)
  /\ inputs' = [inputs EXCEPT ![Len(inputs)] = Append(@, d)]
  /\ data' = Append(data, ZzzInputAfter(d))
  /\ dict_out' = ZzzBody(dict_out, d, nextId)
  /\ nextId' = nextId + IdsMinted(d)
  /\ UNCHANGED <<pc, pkgs, j, out, race_dict>>
  /\ UNCHANGED cliVars

\* the pass raises: the exception leaves work_zzz and nothing is returned
ZzzRaise(d) ==
  /\ pc = "zzz"
  /\ TotalLen(inputs) < MaxRecs
  /\ ~ZzzPasses(d)
  /\ inputs' = [inputs EXCEPT ![Len(inputs)] = Append(@, d)]
  /\ data' = Append(data, d)
  /\ pc' = "raised"
  /\ UNCHANGED <<dict_out, nextId, pkgs, j, out, race_dict>>
  /\ UNCHANGED cliVars

\* the argument is exhausted: return dict_out
ZzzReturn ==
  /\ pc = "zzz"
  /\ pkgs' = Append(pkgs, dict_out)
  /\ pc' = "idle"
  /\ UNCHANGED <<inputs, data, dict_out, nextId, j, out, race_dict>>
  /\ UNCHANGED cliVars

\* the (package, key, entry) triples in the order work_rrr's loops visit them
PkgEntries(ps, p) ==
  LET Of(k) == [e \in 1..Len(ps[p][KeyOrder[k]]) |-> [p |-> p, key |-> KeyOrder[k], e |-> e]]
  IN Of(1) \o Of(2) \o Of(3) \o Of(4) \o Of(5) \o Of(6)

RECURSIVE EntriesFrom(_, _)
EntriesFrom(ps, p) ==
  IF p > Len(ps) THEN <<>> ELSE PkgEntries(ps, p) \o EntriesFrom(ps, p + 1)

Entries(ps) == EntriesFrom(ps, 1)

\* work_rrr is called on the packages returned so far
RrrCall ==
  /\ pc = "idle"
  /\ pc' = "rrr"
  /\ j' = 0
  /\ out' = <<>>
  /\ race_dict' = <<>>
  /\ UNCHANGED <<inputs, data, dict_out, nextId, pkgs>>
  /\ UNCHANGED cliVars

\* the record appended to dict_out for entry d of category key
RrrBody(key, d) ==
  CASE key = "profession" -> RrrProfession(d)
    [] key = "community" -> RrrCommunity(d)
    [] key = "subclass" -> RrrSubclass(d)
    [] key = "domain" -> RrrDomain(d)
    [] OTHER -> RrrVariant(d)

\* one pass of "for d in da"
RrrStep ==
  /\ pc = "rrr"
  /\ j < Len(Entries(pkgs))
  /\ LET at == Entries(pkgs)[j + 1]
         d == pkgs[at.p][at.key][at.e]
     IN /\ race_dict' = IF at.key = "ancestry" THEN RrrAncestry(race_dict, d)
                        ELSE race_dict
        /\ out' = IF at.key = "ancestry" THEN out ELSE Append(out, RrrBody(at.key, d))
        /\ pkgs' = IF at.key = "variant"
                   THEN [pkgs EXCEPT ![at.p][at.key][at.e] = RrrVariantEntry(d)]
                   ELSE pkgs
  /\ j' = j + 1
  /\ UNCHANGED <<pc, inputs, data, dict_out, nextId>>
  /\ UNCHANGED cliVars

\* the loops are over: the merged ancestry records are appended and
\* dict_out is returned
RrrReturn ==
  /\ pc = "rrr"
  /\ j = Len(Entries(pkgs))
  /\ out' = out \o race_dict
  /\ pc' = "done"
  /\ UNCHANGED <<inputs, data, dict_out, nextId, pkgs, j, race_dict>>
  /\ UNCHANGED cliVars

Next ==
  \/ ZzzCall
  \/ \E d \in Records : ZzzStep(d)
  \/ \E d \in Records : ZzzRaise(d)
  \/ ZzzReturn
  \/ RrrCall
  \/ RrrStep
  \/ RrrReturn

Spec == Init /\ [][Next]_vars

\* ------------------------------------------------------------------------
\* The command-line entry points.  The file system is what the run finds:
\* the path argument names nothing, a file with some content, or a directory
\* whose files are listed in os.walk order.
\* ------------------------------------------------------------------------
MaxFiles == 3

DiRen == Str(<<"di2", "ren2">>)
HuanJing == Str(<<"huan2", "jing4">>)
Enemy1 == ("mingcheng" :> Str(<<"a">>)) @@ ("leixing" :> DiRen)
Environment1 == ("mingcheng" :> Str(<<"b">>)) @@ ("leixing" :> HuanJing)

\* ------------------------------------------------------------------------
\* zzz2rink.py: convert_enemy, convert_environment, process_item
\* ------------------------------------------------------------------------
HuaFei == <<"hua1", "fei4">>
KongJuDian == <<"kong3", "ju4", "dian3">>
\* the characters \s matches, of the alphabet
WhiteSpace == {Space, NL}

\* the end of the longest run of characters of S that starts at position p
RECURSIVE SkipRun(_, _, _)
SkipRun(s, p, S) ==
  IF p <= Len(s) /\ s[p] \in S THEN SkipRun(s, p + 1, S) ELSE p

\* group(1) of the pattern 花费\s*(\d+)\s*恐惧点 matched at position i, <<>>
\* when it does not match there.  Each run is taken whole: the character
\* after a run is neither of the run nor, for a shorter run, what follows.
MatchAt(desc, i) ==
  LET b == SkipRun(desc, i + Len(HuaFei), WhiteSpace)
      c == SkipRun(desc, b, DigitSet)
      e == SkipRun(desc, c, WhiteSpace)
  IN IF /\ i + Len(HuaFei) - 1 <= Len(desc)
        /\ SubSeq(desc, i, i + Len(HuaFei) - 1) = HuaFei
        /\ c > b
        /\ e + Len(KongJuDian) - 1 <= Len(desc)
        /\ SubSeq(desc, e, e + Len(KongJuDian) - 1) = KongJuDian
     THEN SubSeq(desc, b, c - 1)
     ELSE <<>>

\* a search that looks for a match at the first position only
cost_match_AtStart(desc) == MatchAt(desc, 1)

\* re.search: group(1) of the leftmost match, <<>> when there is none
cost_match(desc) ==
  LET I == {i \in 1..Len(desc) : MatchAt(desc, i) # <<>>}
  IN IF I = {} THEN <<>> ELSE MatchAt(desc, MinOf(I))

\* "for trait in src.get(特性, [])": the elements iterated
TraitsOf(src) ==
  LET v == Get(src, "texing", EmptyList)
  IN IF v.t = "list" THEN v.m ELSE <<>>

\* a literal of the source, character by character
Lit(chars) == Str(chars)

\* one trait of convert_enemy
EnemyTrait(trait) ==
  LET t_type == Get(trait, "leixing", EmptyStr)
      t_desc == Get(trait, "texingmiaoshu", EmptyStr)
  IN ("name" :> Get(trait, "mingcheng", EmptyStr))
     @@ ("desc" :> IF Truthy(t_type)
                   THEN Str(StrOf(t_type) \o <<FWColon>> \o StrOf(t_desc))
                   ELSE t_desc)
     @@ ("flavor" :> EmptyStr)

\* re.split(r'[，,]', s), each part stripped, the empty parts dropped
Experiences(s) ==
  LET parts == Split(Replace(s, <<FWComma>>, <<Comma>>), <<Comma>>)
      kept == SelectSeq(parts, LAMBDA e : Strip(e) # <<>>)
  IN [i \in 1..Len(kept) |-> Str(Strip(kept[i]))]

\* the attack bonus kept as it is
AttackBonus_Kept(v) == v

\* the attack bonus without its leading '+'
AttackBonus(v) ==
  IF Truthy(v) /\ Head(v.s) = Plus THEN Str(Tail(v.s)) ELSE v

\* f"{heavy}/{severe}"
Threshold(heavy, severe) == Str(StrOf(heavy) \o <<Slash>> \o StrOf(severe))

convert_enemy(src) ==
  LET experiences_str == Get(src, "jingli", EmptyStr)
      traits == TraitsOf(src)
  IN ("name" :> Get(src, "mingcheng", EmptyStr))
     @@ ("rank" :> Get(src, "weijie", EmptyStr))
     @@ ("type" :> Get(src, "zhonglei", EmptyStr))
     @@ ("description" :> Get(src, "jianjie", EmptyStr))
     @@ ("motivation" :> Get(src, "dongjiyuzhanshu", EmptyStr))
     @@ ("difficulty" :> Get(src, "nandu", EmptyStr))
     @@ ("threshold" :> Threshold(Get(src, "zhongdushanghaiyuzhi", EmptyStr),
                                  Get(src, "yanzhongshanghaiyuzhi", EmptyStr)))
     @@ ("health" :> Get(src, "shengmingdian", EmptyStr))
     @@ ("stress" :> Get(src, "yalidian", EmptyStr))
     @@ ("attackBonus" :> AttackBonus(Get(src, "gongjimingzhong", EmptyStr)))
     @@ ("weaponName" :> Get(src, "gongjiwuqi", EmptyStr))
     @@ ("weaponRange" :> Get(src, "gongjifanwei", EmptyStr))
     @@ ("damageDice" :> Get(src, "gongjishanghai", EmptyStr))
     @@ ("damageType" :> Get(src, "gongjishuxing", EmptyStr))
     @@ ("decoratorColor" :> Lit(<<"#", "8", "a", "1", "c", "1", "c">>))
     @@ ("highlightBgColor" :> Lit(<<"#", "8", "5", "2", "0", "2", "0">>))
     @@ ("highlightTextColor" :> Lit(<<"#", "f", "f", "f", "f", "f", "f">>))
     @@ ("isNPC" :> BoolV(FALSE))
     @@ ("imageSrc" :> Lit(<<"a", "b", "o", "u", "t", ":", "b", "l", "a", "n", "k">>))
     @@ ("imageTransform" :> EmptyStr)
     @@ ("imageSettings" :> Map(<<<<"width", Lit(<<"1", "5", "0">>)>>,
                                  <<"height", Lit(<<"1", "5", "0">>)>>,
                                  <<"shape", Lit(<<"c", "i", "r", "c", "l", "e">>)>>,
                                  <<"hideBorder", BoolV(FALSE)>>>>))
     @@ ("experiences" :> IF Truthy(experiences_str)
                          THEN List(Experiences(experiences_str.s))
                          ELSE EmptyList)
     @@ ("traits" :> List([i \in 1..Len(traits) |-> EnemyTrait(traits[i])]))
     @@ ("specialTraits" :> EmptyList)

\* one trait of convert_environment
EnvironmentTrait(trait) ==
  LET trait_name == Get(trait, "mingcheng", EmptyStr)
      trait_en == Get(trait, "yuanming", EmptyStr)
      desc == Get(trait, "texingmiaoshu", EmptyStr)
      group1 == cost_match(desc.s)
  IN ("name" :> IF Truthy(trait_en)
                THEN Str(StrOf(trait_name) \o <<Space>> \o StrOf(trait_en))
                ELSE trait_name)
     @@ ("type" :> Get(trait, "leixing", EmptyStr))
     @@ ("fear" :> BoolV(group1 # <<>>))
     @@ ("cost" :> IF group1 # <<>> THEN Str(group1) ELSE Str(<<"0">>))
     @@ ("desc" :> desc)
     @@ ("qs" :> Get(trait, "texingwenti", EmptyStr))

convert_environment(src) ==
  LET traits == TraitsOf(src)
  IN ("name" :> Get(src, "mingcheng", EmptyStr))
     @@ ("nameEn" :> Get(src, "yuanwen", EmptyStr))
     @@ ("rank" :> Get(src, "weijie", EmptyStr))
     @@ ("type" :> Get(src, "zhonglei", EmptyStr))
     @@ ("description" :> Get(src, "jianjie", EmptyStr))
     @@ ("tendencies" :> Get(src, "quxiang", EmptyStr))
     @@ ("difficulty" :> Get(src, "nandu", EmptyStr))
     @@ ("enemies" :> Get(src, "qianzaidiren", EmptyStr))
     @@ ("decoratorColor" :> Lit(<<"#", "1", "c", "5", "3", "8", "a">>))
     @@ ("highlightBgColor" :> Lit(<<"#", "8", "5", "2", "0", "2", "0">>))
     @@ ("highlightTextColor" :> Lit(<<"#", "f", "f", "f", "f", "f", "f">>))
     @@ ("imageSettings" :> Map(<<<<"src", EmptyStr>>,
                                  <<"width", Lit(<<"3", "5", "0">>)>>,
                                  <<"height", Lit(<<"2", "0", "0">>)>>,
                                  <<"transform", EmptyStr>>,
                                  <<"hideBorder", BoolV(FALSE)>>>>))
     @@ ("traits" :> List([i \in 1..Len(traits) |-> EnvironmentTrait(traits[i])]))

\* the exceptions of a conversion: a method of str called on a number, a
\* 特性 that is no list of traits, a 特性描述 that is no str where one is
\* searched
IsText(v) == v.t = "str"
TraitsRaise(src) ==
  LET v == Get(src, "texing", EmptyList)
  IN IF v.t = "list" THEN FALSE ELSE (v.t = "int" \/ Truthy(v))
EnemyRaises(src) ==
  LET a == Get(src, "gongjimingzhong", EmptyStr)
      e == Get(src, "jingli", EmptyStr)
  IN IF Truthy(a) /\ ~IsText(a) THEN TRUE
     ELSE IF Truthy(e) /\ ~IsText(e) THEN TRUE
     ELSE TraitsRaise(src)
EnvironmentRaises(src) ==
  IF TraitsRaise(src) THEN TRUE
  ELSE \E i \in 1..Len(TraitsOf(src)) :
         ~IsText(Get(TraitsOf(src)[i], "texingmiaoshu", EmptyStr))

\* process_item: the items converted (an item of another 类型 gives None)
IsRinkItem(item) == Get(item, "leixing", EmptyStr) \in {DiRen, HuanJing}
process_item(item) ==
  IF Get(item, "leixing", EmptyStr) = DiRen THEN convert_enemy(item)
  ELSE convert_environment(item)
ItemRaises(item) ==
  IF Get(item, "leixing", EmptyStr) = DiRen THEN EnemyRaises(item)
  ELSE IF Get(item, "leixing", EmptyStr) = HuanJing THEN EnvironmentRaises(item)
  ELSE FALSE

\* an item of the file makes its conversion raise
RinkRaises(items) == \E i \in 1..Len(items) : ItemRaises(items[i])
RinkRuns(items) == ~RinkRaises(items)

\* what json.load makes of a file: a decode error, a dict root, a list root
BadJson == [kind |-> "bad", items |-> <<>>]
DictRoot(d) == [kind |-> "dict", items |-> <<d>>]
ListRoot(l) == [kind |-> "list", items |-> l]

\* ------------------------------------------------------------------------
\* The adversary and environment records of the input files
\* ------------------------------------------------------------------------
MaxTraits == 2

\* a key a record does not have
Absent == [t |-> "absent", s |-> <<>>, n |-> 0, m |-> <<>>]
NoFields == [x \in {} |-> Absent]
Field(k, v) == IF v = Absent THEN NoFields ELSE (k :> v)

\* trait descriptions around the phrase 花费 N 恐惧点: something before it
\* (also a 花费 that starts no phrase), whitespace or none on either side of
\* N, N of no, one or two digits or no digit at all, the phrase's end whole
\* or cut short, and a second phrase after it
DescPrefix == {<<>>, <<"x">>, HuaFei \o <<"x">>}
DescGap == {<<>>, <<Space>>, <<Space, NL>>}
DescNumber == {<<>>, <<"2">>, <<"1", "2">>, <<"0", "2">>, <<"x">>, <<"2", "x">>}
DescTail == {KongJuDian, <<"kong3", "ju4">>}
DescSuffix == {<<>>, HuaFei \o <<"3">> \o KongJuDian}
Descs ==
  {<<>>, <<"x">>}
  \cup {p \o HuaFei \o g1 \o n \o g2 \o t \o x :
          p \in DescPrefix, g1 \in DescGap, n \in DescNumber,
          g2 \in DescGap, t \in DescTail, x \in DescSuffix}

Trait(desc) ==
  ("mingcheng" :> Str(<<"t">>)) @@ ("leixing" :> Str(<<"b">>))
  @@ ("texingmiaoshu" :> Str(desc))
\* a trait with an original name and no description
TraitBare == ("mingcheng" :> Str(<<"u">>)) @@ ("yuanming" :> Str(<<"U">>))
\* a trait whose description is a number
TraitNumber == ("mingcheng" :> Str(<<"v">>)) @@ ("texingmiaoshu" :> IntV(2))

TraitSamples ==
  {Trait(HuaFei \o <<"2">> \o KongJuDian \o <<"x">>),
   Trait(HuaFei \o <<Space, "1", "2", Space>> \o KongJuDian),
   Trait(<<"x">>), TraitBare}

Environment(traits) ==
  ("mingcheng" :> Str(<<"b">>)) @@ ("leixing" :> HuanJing)
  @@ ("quxiang" :> Str(<<"q">>)) @@ ("texing" :> List(traits))

Environments ==
  {Environment(<<Trait(d)>>) : d \in Descs}
  \cup {Environment(ts) : ts \in UNION {[1..n -> TraitSamples] : n \in 0..MaxTraits}}
  \cup {Environment1, Environment(<<TraitNumber>>),
        Environment1 @@ ("texing" :> Str(<<"x">>))}

\* adversaries: each threshold a str, an int or absent; the attack bonus
\* with and without a leading '+', empty, absent, or a number
Thresholds1 == {Absent, Str(<<"5">>), IntV(5)}
Thresholds2 == {Absent, Str(<<"1", "1">>), IntV(11)}
Bonuses ==
  {Absent, EmptyStr, Str(<<Plus, "3">>), Str(<<"3">>), Str(<<Plus, Plus, "3">>),
   Str(<<Dash, "1">>), Str(<<Space, Plus, "3">>), Str(<<Plus>>), IntV(0), IntV(3)}

Enemy(heavy, severe, bonus) ==
  Enemy1 @@ Field("zhongdushanghaiyuzhi", heavy)
  @@ Field("yanzhongshanghaiyuzhi", severe)
  @@ Field("gongjimingzhong", bonus)
  @@ ("jingli" :> Str(<<"a", FWComma, Space, "b", Comma, Space, Comma, "c">>))
  @@ ("texing" :> List(<<Trait(<<"x">>), TraitBare>>))

Enemies ==
  {Enemy(h, v, b) : h \in Thresholds1, v \in Thresholds2, b \in Bonuses}

RinkContents ==
  {ListRoot(<<e>>) : e \in Enemies \cup Environments}
  \cup {DictRoot(Enemy(Str(<<"5">>), Str(<<"1", "1">>), Str(<<Plus, "3">>))),
        ListRoot(<<Enemy(IntV(5), Absent, Str(<<"3">>)), Variant3,
                   Environment(<<Trait(<<"x">>), Trait(HuaFei \o <<"2">> \o KongJuDian)>>)>>)}

Contents ==
  {BadJson, DictRoot(Enemy1), ListRoot(<<>>), ListRoot(<<Enemy1>>),
   ListRoot(<<Environment1, Variant3>>)}

\* a file of a directory: whether its name ends in _zzz.json, and its content
DirEntries ==
  {[matches |-> TRUE, content |-> c] : c \in Contents}
  \cup {[matches |-> FALSE, content |-> ListRoot(<<Enemy1>>)]}

Paths ==
  {[kind |-> "missing", entries |-> <<>>, content |-> BadJson]}
  \cup {[kind |-> "file", entries |-> <<>>, content |-> c] :
          c \in Contents \cup RinkContents}
  \cup {[kind |-> "dir", entries |-> es, content |-> BadJson] :
          es \in UNION {[1..n -> DirEntries] : n \in 0..MaxFiles}}

\* ------------------------------------------------------------------------
\* zzz2keyword.py: work.  The description follows the order of the record's
\* fields, so a record is here the sequence of its <<key, value>> fields in
\* the order json.load read them.  In the description a key is one token.
\* ------------------------------------------------------------------------
MaxFields == 3

MoRenLeiXing == Str(<<"mo4", "ren4", "lei4", "xing2">>)
Normal == Str(<<"n", "o", "r", "m", "a", "l">>)

HasKey(d, k) == \E i \in 1..Len(d) : d[i][1] = k
\* d.get(k, default)
GetField(d, k, default) ==
  IF HasKey(d, k) THEN d[CHOOSE i \in 1..Len(d) : d[i][1] = k][2] ELSE default
\* d.pop(k, None): what is left of d
PopField(d, k) == SelectSeq(d, LAMBDA f : f[1] # k)

\* the loop over 原名, 背景问题, 关系问题 left out
Popped_None(d) == d

\* "for k in [原名, 背景问题, 关系问题]: d.pop(k, None)"
Popped(d) == PopField(PopField(PopField(d, "yuanming"), "beijingwenti"), "guanxiwenti")

\* f"{k}:{v}\n" for the fields of d in order, 名称 left out
RECURSIVE DescLines(_)
DescLines(d) ==
  IF d = <<>> THEN <<>>
  ELSE (IF Head(d)[1] # "mingcheng"
        THEN <<Head(d)[1], Colon>> \o StrOf(Head(d)[2]) \o <<NL>>
        ELSE <<>>)
       \o DescLines(Tail(d))

\* the summary of one record
KeywordSummary(d) ==
  LET d1 == Popped(d)
      typ == GetField(d1, "leixing", MoRenLeiXing)
      d2 == PopField(d1, "leixing")
      category == IF typ = LingYuKa
                  THEN Str(typ.s \o <<Dash>> \o GetField(d2, "lingyu", EmptyStr).s)
                  ELSE typ
  IN ("keyword" :> GetField(d, "mingcheng", EmptyStr))
     @@ ("category" :> category)
     @@ ("description" :> Str(Strip(DescLines(d2))))
     @@ ("display" :> Normal)

\* typ += "-" + d.get(领域, "") raises when 领域 is no str
SummaryRaises(d) ==
  IF GetField(d, "leixing", MoRenLeiXing) = LingYuKa
  THEN GetField(d, "lingyu", EmptyStr).t # "str"
  ELSE FALSE
KeywordRaises(items) == \E i \in 1..Len(items) : SummaryRaises(items[i])
KeywordRuns(items) == ~KeywordRaises(items)

\* work: one summary per record, in order
KeywordWork(items) == [i \in 1..Len(items) |-> KeywordSummary(items[i])]

\* the records of the files extract-keywords is given: up to MaxFields
\* fields with distinct keys, in any order
FieldPool ==
  {<<"mingcheng", Str(<<"a">>)>>,
   <<"leixing", LingYuKa>>, <<"leixing", Str(<<"x">>)>>,
   <<"lingyu", Str(<<"m">>)>>, <<"lingyu", IntV(2)>>,
   <<"yuanming", Str(<<"o">>)>>,
   <<"beijingwenti", Str(<<"q">>)>>,
   <<"guanxiwenti", Str(<<"r">>)>>,
   <<"miaoshu", Str(<<"d">>)>>, <<"miaoshu", Str(<<"d", Space>>)>>,
   <<"miaoshu", EmptyStr>>, <<"miaoshu", Str(<<"d", NL, "e", NL>>)>>,
   <<"dengji", IntV(1)>>}
DistinctKeys(d) == \A i, k \in 1..Len(d) : d[i][1] = d[k][1] => i = k
KeywordRecords ==
  {d \in UNION {[1..n -> FieldPool] : n \in 0..MaxFields} : DistinctKeys(d)}
KeywordRecord1 ==
  <<<<"mingcheng", Str(<<"a">>)>>, <<"leixing", LingYuKa>>,
    <<"lingyu", Str(<<"m">>)>>, <<"miaoshu", Str(<<"d">>)>>,
    <<"yuanming", Str(<<"o">>)>>, <<"dengji", IntV(1)>>>>
KeywordRecord2 ==
  <<<<"leixing", Str(<<"x">>)>>, <<"beijingwenti", Str(<<"q">>)>>,
    <<"dengji", IntV(1)>>, <<"mingcheng", Str(<<"b">>)>>,
    <<"miaoshu", Str(<<"d", NL, "e", NL>>)>>>>
KeywordContents ==
  {BadJson, ListRoot(<<>>), DictRoot(KeywordRecord1),
   ListRoot(<<KeywordRecord1, KeywordRecord2>>),
   ListRoot(<<KeywordRecord2, KeywordRecord1, KeywordRecord2>>)}
  \cup {ListRoot(<<d>>) : d \in KeywordRecords}
KeywordPaths ==
  {[kind |-> "missing", entries |-> <<>>, content |-> BadJson],
   [kind |-> "dir", entries |-> <<>>, content |-> BadJson]}
  \cup {[kind |-> "file", entries |-> <<>>, content |-> c] : c \in KeywordContents}

InitCli ==
  /\ ConvIdle
  /\ tool \in {"merge", "keyword", "rink"}
  /\ path \in (IF tool = "keyword" THEN KeywordPaths ELSE Paths)
  /\ cpc = "start"
  /\ zzz_files = <<>>
  /\ nf = 0
  /\ merged = <<>>
  /\ status = 0
  /\ written = NotWritten

\* find_zzz_files: the files whose name matches, in os.walk order
find_zzz_files(p) ==
  LET fs == SelectSeq(p.entries, LAMBDA e : e.matches)
  IN [i \in 1..Len(fs) |-> fs[i].content]

\* one pass of merge_zzz_files' loop that puts the new list in front
MergeOne_Prepend(m, c) == IF c.kind = "list" THEN c.items \o m ELSE m

\* one pass of merge_zzz_files' loop over a file of content c: load_json_list
\* raises ValueError unless the root is a list, and the file is skipped
MergeOne(m, c) == IF c.kind = "list" THEN m \o c.items ELSE m

\* merge main: the path does not exist
MergeMissing ==
  /\ tool = "merge" /\ cpc = "start"
  /\ path.kind = "missing"
  /\ status' = 1
  /\ cpc' = "exit"
  /\ UNCHANGED <<tool, path, zzz_files, nf, merged, written>>
  /\ UNCHANGED convVars

\* merge main: no *_zzz.json file under the path
MergeNothingFound ==
  /\ tool = "merge" /\ cpc = "start"
  /\ path.kind # "missing"
  /\ find_zzz_files(path) = <<>>
  /\ status' = 0
  /\ cpc' = "exit"
  /\ UNCHANGED <<tool, path, zzz_files, nf, merged, written>>
  /\ UNCHANGED convVars

\* merge main: files found, merge_zzz_files is called
MergeFound ==
  /\ tool = "merge" /\ cpc = "start"
  /\ path.kind # "missing"
  /\ find_zzz_files(path) # <<>>
  /\ zzz_files' = find_zzz_files(path)
  /\ nf' = 0
  /\ merged' = <<>>
  /\ cpc' = "merging"
  /\ UNCHANGED <<tool, path, status, written>>
  /\ UNCHANGED convVars

\* one pass of "for fp in filepaths"
MergeFile ==
  /\ cpc = "merging"
  /\ nf < Len(zzz_files)
  /\ merged' = MergeOne(merged, zzz_files[nf + 1])
  /\ nf' = nf + 1
  /\ UNCHANGED <<tool, path, cpc, zzz_files, status, written>>
  /\ UNCHANGED convVars

\* merge_zzz_files returns; main writes the merged list and ends
MergeWrite ==
  /\ cpc = "merging"
  /\ nf = Len(zzz_files)
  /\ written' = [is |-> TRUE, list |-> merged]
  /\ status' = 0
  /\ cpc' = "exit"
  /\ UNCHANGED <<tool, path, zzz_files, nf, merged>>
  /\ UNCHANGED convVars

\* extract-keywords main: os.path.isfile fails, sys.exit(1)
KeywordMissing ==
  /\ tool = "keyword" /\ cpc = "start"
  /\ path.kind # "file"
  /\ status' = 1
  /\ cpc' = "exit"
  /\ UNCHANGED <<tool, path, zzz_files, nf, merged, written>>
  /\ UNCHANGED convVars

\* extract-keywords main: json.load fails, sys.exit(1)
KeywordUnparseable ==
  /\ tool = "keyword" /\ cpc = "start"
  /\ path.kind = "file"
  /\ path.content.kind = "bad"
  /\ status' = 1
  /\ cpc' = "exit"
  /\ UNCHANGED <<tool, path, zzz_files, nf, merged, written>>
  /\ UNCHANGED convVars

\* extract-keywords main: work raises, the interpreter ends with the
\* traceback and exit status 1
KeywordCrash ==
  /\ tool = "keyword" /\ cpc = "start"
  /\ path.kind = "file"
  /\ path.content.kind # "bad"
  /\ ~KeywordRuns(path.content.items)
  /\ status' = 1
  /\ cpc' = "exit"
  /\ UNCHANGED <<tool, path, zzz_files, nf, merged, written>>
  /\ UNCHANGED convVars

\* extract-keywords main: the summaries are written
KeywordWrite ==
  /\ tool = "keyword" /\ cpc = "start"
  /\ path.kind = "file"
  /\ path.content.kind # "bad"
  /\ KeywordRuns(path.content.items)
  /\ written' = [is |-> TRUE, list |-> KeywordWork(path.content.items)]
  /\ status' = 0
  /\ cpc' = "exit"
  /\ UNCHANGED <<tool, path, zzz_files, nf, merged>>
  /\ UNCHANGED convVars

\* convert-to-rink main: os.path.exists fails; main prints and returns
RinkMissing ==
  /\ tool = "rink" /\ cpc = "start"
  /\ path.kind = "missing"
  /\ status' = 0
  /\ cpc' = "exit"
  /\ UNCHANGED <<tool, path, zzz_files, nf, merged, written>>
  /\ UNCHANGED convVars

\* convert-to-rink main: open, json.load or a conversion raises (a
\* directory, a decode error, a field of the wrong type); "except Exception"
\* prints and main returns
RinkUnparseable ==
  /\ tool = "rink" /\ cpc = "start"
  /\ \/ path.kind = "dir"
     \/ path.kind = "file" /\ path.content.kind = "bad"
     \/ path.kind = "file" /\ path.content.kind # "bad"
          /\ ~RinkRuns(path.content.items)
  /\ status' = 0
  /\ cpc' = "exit"
  /\ UNCHANGED <<tool, path, zzz_files, nf, merged, written>>
  /\ UNCHANGED convVars

\* main's loop over the items: the records process_item returns, the None
\* of an item of another 类型 left out
RinkConverted(items) ==
  LET kept == SelectSeq(items, IsRinkItem)
  IN [i \in 1..Len(kept) |-> process_item(kept[i])]

\* convert-to-rink main: the converted records are written
RinkWrite ==
  /\ tool = "rink" /\ cpc = "start"
  /\ path.kind = "file"
  /\ path.content.kind # "bad"
  /\ RinkRuns(path.content.items)
  /\ written' = [is |-> TRUE, list |-> RinkConverted(path.content.items)]
  /\ status' = 0
  /\ cpc' = "exit"
  /\ UNCHANGED <<tool, path, zzz_files, nf, merged>>
  /\ UNCHANGED convVars

NextCli ==
  \/ MergeMissing
  \/ MergeNothingFound
  \/ MergeFound
  \/ MergeFile
  \/ MergeWrite
  \/ KeywordMissing
  \/ KeywordUnparseable
  \/ KeywordCrash
  \/ KeywordWrite
  \/ RinkMissing
  \/ RinkUnparseable
  \/ RinkWrite

SpecCli == InitCli /\ [][NextCli]_vars

\* ------------------------------------------------------------------------
\* Round trips: work_rrr([work_zzz([r])]) and work_rrr([work_zzz(list)])
\* ------------------------------------------------------------------------
\* work_rrr has returned and its argument is the package of one work_zzz call
OnePackage == pc = "done" /\ Len(inputs) = 1 /\ Len(pkgs) = 1
\* ... whose argument was the single record inputs[1][1]
OneRecord == OnePackage /\ Len(inputs[1]) = 1

\* C1 (as claimed): for every record r of type 主职, 社群, 子职 or 领域卡,
\* work_rrr([work_zzz([r])]) is exactly one record that has every field of r
\* other than 原名 with r's value; for 子职 the 等级 is r's value taken
\* through the tier vocabulary and back.
C1_RoundTripIsIdentity ==
  (OneRecord /\ type_(inputs[1][1]) \in {ZhuZhi, SheQun, ZiZhi, LingYuKa}) =>
    LET r == inputs[1][1]
        Expected(k) ==
          IF r["leixing"] = ZiZhi /\ k = "dengji"
          THEN Str(TierToZzz(TierToRrr(r[k].s)))
          ELSE r[k]
    IN /\ Len(out) = 1
       /\ \A k \in (DOMAIN r) \ {"yuanming"} :
            k \in DOMAIN out[1] /\ out[1][k] = Expected(k)

\* the description holds exactly two newline-separated lines, each with a
\* full-width colon between feature and effect
C2_TwoFeatureLines(r) ==
  /\ type_(r) = ZhongZu
  /\ LET lines == Split(r["miaoshu"].s, <<NL>>)
     IN Len(lines) = 2 /\ \A i \in 1..2 : Contains(lines[i], <<FWColon>>)

\* the descriptions of the records named nm, in input order, joined by newline
RECURSIVE C2_JoinedLines(_, _)
C2_JoinedLines(list, nm) ==
  IF list = <<>> THEN <<>>
  ELSE LET rest == C2_JoinedLines(Tail(list), nm)
       IN IF name_(Head(list)) # nm THEN rest
          ELSE IF rest = <<>> /\ \A i \in 1..Len(Tail(list)) : name_(Tail(list)[i]) # nm
               THEN Head(list)["miaoshu"].s
               ELSE Head(list)["miaoshu"].s \o <<NL>> \o rest

\* C2 (as claimed): for a list of 种族 records with two 'feature：effect'
\* lines each, work_rrr([work_zzz(list)]) holds exactly one 种族 record per
\* distinct 名称, whose 描述 is the newline-join of the lines of all input
\* records of that name, in input order.
C2_AncestryMergeKeepsLines ==
  (OnePackage /\ \A i \in 1..Len(inputs[1]) : C2_TwoFeatureLines(inputs[1][i])) =>
    LET names == {name_(inputs[1][i]) : i \in 1..Len(inputs[1])}
    IN /\ Len(out) = Cardinality(names)
       /\ \A nm \in names :
            \E k \in 1..Len(out) :
              /\ out[k]["mingcheng"] = nm
              /\ out[k]["leixing"] = ZhongZu
              /\ out[k]["miaoshu"] = Str(C2_JoinedLines(inputs[1], nm))

\* a digit string without its leading zeros
RECURSIVE C3_StripZeros(_)
C3_StripZeros(s) ==
  IF Len(s) > 1 /\ Head(s) = "0" THEN C3_StripZeros(Tail(s)) ELSE s

\* C3 (as claimed): for a 领域卡 record the zzz->rrr->zzz round trip gives
\* back the original 回想 value, digit string or not.
C3_RecallRoundTripIsIdentity ==
  (OneRecord /\ type_(inputs[1][1]) = LingYuKa) =>
    out[1]["huixiang"] = inputs[1][1]["huixiang"]

\* C3 (amended): for a 领域卡 record work_zzz emits 回想 as the integer of a
\* digit string and emits a non-digit string unchanged; work_rrr gives back a
\* non-digit string unchanged and a digit string as the decimal form of its
\* integer, which is the original value without its leading zeros.
C3_RecallRoundTrip ==
  (OneRecord /\ type_(inputs[1][1]) = LingYuKa) =>
    LET v == inputs[1][1]["huixiang"]
        e == pkgs[1]["domain"][1]["huixiang"]
        o == out[1]["huixiang"]
    IN IF IsDigit(v.s)
       THEN /\ e = IntV(DigitsToNat(v.s))
            /\ o = Str(C3_StripZeros(v.s))
       ELSE e = v /\ o = v

\* a digit-string 回想 has made the round trip and come back as it was
C3_Witness ==
  /\ OneRecord
  /\ type_(inputs[1][1]) = LingYuKa
  /\ IsDigit(inputs[1][1]["huixiang"].s)
  /\ pkgs[1]["domain"][1]["huixiang"].t = "int"
  /\ out[1]["huixiang"] = inputs[1][1]["huixiang"]

C4_IsVariant(r) ==
  ~("leixing" \in DOMAIN r /\ r["leixing"] \in {ZhuZhi, ZhongZu, SheQun, ZiZhi, LingYuKa})

C4_Info(r) == IF "jianluexinxi" \in DOMAIN r THEN r["jianluexinxi"].s ELSE <<>>

RECURSIVE C4_Join(_)
C4_Join(segs) ==
  IF segs = <<>> THEN <<>>
  ELSE IF Len(segs) = 1 THEN segs[1]
  ELSE segs[1] \o <<Slash>> \o C4_Join(Tail(segs))

C4_NonEmpty(segs) == SelectSeq(segs, LAMBDA x : x # <<>>)

\* C4: for a record of a catch-all type, work_zzz leaves under 简略信息 the
\* mapping item0, item1, ... of the '/'-separated segments in order (segments
\* free of '/' whose '/'-join is the original string); work_rrr leaves the
\* '/'-join of the non-empty segments, which is the original string whenever
\* no segment is empty.
C4_BriefInfoRoundTrip ==
  (Len(inputs) = 1 /\ Len(pkgs) = 1 /\ Len(inputs[1]) = 1
     /\ C4_IsVariant(inputs[1][1])) =>
    LET info == C4_Info(inputs[1][1])
        v == pkgs[1]["variant"][1]["jianluexinxi"]
        segs == IF info = <<>> THEN <<>> ELSE Split(info, <<Slash>>)
    IN /\ (pc = "idle" \/ (pc = "rrr" /\ j = 0)) =>
            /\ v.t = "dict"
            /\ \A i \in 1..Len(v.m) :
                 /\ v.m[i][1] = "item" \o ToString(i - 1)
                 /\ ~Contains(v.m[i][2], <<Slash>>)
            /\ C4_Join([i \in 1..Len(v.m) |-> v.m[i][2]]) = info
            /\ info = <<>> => v.m = <<>>
       /\ pc = "done" =>
            /\ v = Str(C4_Join(C4_NonEmpty(segs)))
            /\ (\A i \in 1..Len(segs) : segs[i] # <<>>) => v.s = info
            /\ IF v.s = <<>> THEN "jianluexinxi" \notin DOMAIN out[1]
               ELSE out[1]["jianluexinxi"] = v

\* a brief-info string of three non-empty segments has been split and rejoined
C4_Witness ==
  /\ OneRecord
  /\ C4_IsVariant(inputs[1][1])
  /\ Len(Split(C4_Info(inputs[1][1]), <<Slash>>)) = 3
  /\ \A i \in 1..3 : Split(C4_Info(inputs[1][1]), <<Slash>>)[i] # <<>>
  /\ out[1]["jianluexinxi"].s = C4_Info(inputs[1][1])

\* ------------------------------------------------------------------------
\* work_rrr's output order
\* ------------------------------------------------------------------------
C6_FirstIndex(seq, v) == MinOf({i \in 1..Len(seq) : seq[i] = v})

\* L holds the distinct values of S, each once, ordered by first appearance
C6_DistinctInOrder(L, S) ==
  /\ \A a, b \in 1..Len(L) : a # b => L[a] # L[b]
  /\ {L[i] : i \in 1..Len(L)} = {S[i] : i \in 1..Len(S)}
  /\ \A a, b \in 1..Len(L) :
       a < b => C6_FirstIndex(S, L[a]) < C6_FirstIndex(S, L[b])

\* the output record o is the record of the non-ancestry entry d of category
\* key (d as work_rrr leaves it)
C6_RecordOf(o, key, d) ==
  CASE key = "profession" -> o["leixing"] = ZhuZhi /\ o["yuanming"] = d["id"]
    [] key = "community" -> o["leixing"] = SheQun /\ o["yuanming"] = d["id"]
    [] key = "domain" -> o["leixing"] = LingYuKa /\ o["yuanming"] = d["id"]
    [] key = "subclass" ->
         /\ o["leixing"] = ZiZhi
         /\ o["zhuzhi"] = d["zhuzhi"]
         /\ o["miaoshu"] = d["miaoshu"]
    [] OTHER -> o = [k \in {k \in DOMAIN d : Truthy(d[k])} |-> d[k]]

C6_IsAncestryRecord(o) == "leixing" \in DOMAIN o /\ o["leixing"] = ZhongZu

\* C6: the list work_rrr returns is the records of all non-ancestry entries
\* in the order they are met (package by package, category by category, entry
\* by entry), followed by one merged ancestry record per distinct 种族 name in
\* the order the names were first seen; until the loops are over no merged
\* ancestry record is in the list.
C6_OutputOrder ==
  LET E == Entries(pkgs)
      nonAnc == SelectSeq(E, LAMBDA at : at.key # "ancestry")
      anc == SelectSeq(E, LAMBDA at : at.key = "ancestry")
      raceNames == [i \in 1..Len(anc) |-> pkgs[anc[i].p]["ancestry"][anc[i].e]["zhongzu"]]
      N == Len(nonAnc)
  IN /\ pc = "rrr" => \A i \in 1..Len(out) : ~C6_IsAncestryRecord(out[i])
     /\ pc = "done" =>
          /\ Len(out) >= N
          /\ \A i \in 1..N :
               C6_RecordOf(out[i], nonAnc[i].key, pkgs[nonAnc[i].p][nonAnc[i].key][nonAnc[i].e])
          /\ \A i \in (N + 1)..Len(out) : C6_IsAncestryRecord(out[i])
          /\ C6_DistinctInOrder(
               [i \in 1..(Len(out) - N) |-> out[N + i]["mingcheng"]], raceNames)

\* two packages, ancestry entries of one name in both and a profession in the
\* second: the profession's record comes first, the one merged record last
C6_Witness ==
  /\ pc = "done"
  /\ Len(pkgs) = 2
  /\ Len(pkgs[1]["ancestry"]) = 2
  /\ Len(pkgs[2]["profession"]) = 1
  /\ Len(out) = 2
  /\ out[1]["leixing"] = ZhuZhi
  /\ C6_IsAncestryRecord(out[2])

\* ------------------------------------------------------------------------
\* work_zzz's accumulator
\* ------------------------------------------------------------------------
\* the records of the running work_zzz call
C7_Seen == inputs[Len(inputs)]

C7_Field(r, k) == IF k \in DOMAIN r THEN r[k] ELSE EmptyStr

\* the names seen so far for a category: field k of the records that satisfy In
C7_Names(In(_), k) ==
  LET rs == SelectSeq(C7_Seen, In)
  IN [i \in 1..Len(rs) |-> C7_Field(rs[i], k)]

C7_HasType(r, t) == "leixing" \in DOMAIN r /\ r["leixing"] = t

\* C7: after every pass of work_zzz's loop each of the five
\* customFieldDefinitions lists holds the distinct names seen so far for its
\* category, each once, ordered by first appearance.
C7_DedupLists ==
  pc = "zzz" =>
    LET c == dict_out.customFieldDefinitions
    IN /\ C6_DistinctInOrder(c.professions,
            C7_Names(LAMBDA r : C7_HasType(r, ZhuZhi), "mingcheng"))
       /\ C6_DistinctInOrder(c.ancestries,
            C7_Names(LAMBDA r : C7_HasType(r, ZhongZu), "mingcheng"))
       /\ C6_DistinctInOrder(c.communities,
            C7_Names(LAMBDA r : C7_HasType(r, SheQun), "mingcheng"))
       /\ C6_DistinctInOrder(c.domains,
            C7_Names(LAMBDA r : C7_HasType(r, LingYuKa), "lingyu"))
       /\ C6_DistinctInOrder(c.variants, C7_Names(C4_IsVariant, "leixing"))

\* two records of one name have been processed and the name is listed once
C7_Witness ==
  /\ pc = "zzz"
  /\ Len(C7_Seen) = 2
  /\ C7_HasType(C7_Seen[1], ZhongZu) /\ C7_HasType(C7_Seen[2], ZhongZu)
  /\ C7_Seen[1]["mingcheng"] = C7_Seen[2]["mingcheng"]
  /\ Len(dict_out.customFieldDefinitions.ancestries) = 1

C8_Count(In(_)) == Len(SelectSeq(C7_Seen, In))

\* C8: after every pass of work_zzz's loop each category list holds one entry
\* per record seen of its 类型 (two per 种族 record; every other value and a
\* missing 类型 go to variant), so the entries add up to the records seen.
C8_Partition ==
  pc = "zzz" =>
    /\ Len(dict_out.profession) = C8_Count(LAMBDA r : C7_HasType(r, ZhuZhi))
    /\ Len(dict_out.ancestry) = 2 * C8_Count(LAMBDA r : C7_HasType(r, ZhongZu))
    /\ Len(dict_out.community) = C8_Count(LAMBDA r : C7_HasType(r, SheQun))
    /\ Len(dict_out.subclass) = C8_Count(LAMBDA r : C7_HasType(r, ZiZhi))
    /\ Len(dict_out.domain) = C8_Count(LAMBDA r : C7_HasType(r, LingYuKa))
    /\ Len(dict_out.variant) = C8_Count(C4_IsVariant)
    /\ Len(dict_out.profession) + (Len(dict_out.ancestry) \div 2)
         + Len(dict_out.community) + Len(dict_out.subclass)
         + Len(dict_out.domain) + Len(dict_out.variant) = Len(C7_Seen)

\* an ancestry record and a record without 类型 have been processed
C8_Witness ==
  /\ pc = "zzz"
  /\ Len(C7_Seen) = 2
  /\ \E i \in 1..2 : C7_HasType(C7_Seen[i], ZhongZu)
  /\ \E i \in 1..2 : "leixing" \notin DOMAIN C7_Seen[i]
  /\ Len(dict_out.ancestry) = 2
  /\ Len(dict_out.variant) = 1

\* C9 (as claimed): work_zzz leaves every input record as it was passed.
C9_InputUnchanged == pc = "zzz" => data = inputs[Len(inputs)]

\* ------------------------------------------------------------------------
\* The command-line entry points
\* ------------------------------------------------------------------------
\* the lists of the files that parsed as a JSON list, concatenated in order
RECURSIVE C5_Concat(_)
C5_Concat(files) ==
  IF files = <<>> THEN <<>>
  ELSE C5_Concat(SubSeq(files, 1, Len(files) - 1))
       \o (IF files[Len(files)].kind = "list" THEN files[Len(files)].items ELSE <<>>)

RECURSIVE C5_SumLen(_)
C5_SumLen(files) ==
  IF files = <<>> THEN 0
  ELSE (IF Head(files).kind = "list" THEN Len(Head(files).items) ELSE 0)
       + C5_SumLen(Tail(files))

\* C5: after every pass of merge_zzz_files' loop merged is the concatenation,
\* in discovery order, of the lists of the files passed so far that parsed as
\* a JSON list; the other files add nothing and the loop goes on to the last
\* file, so the list written holds as many records as those lists together.
C5_MergeConcatenates ==
  /\ cpc = "merging" =>
       /\ merged = C5_Concat(SubSeq(zzz_files, 1, nf))
       /\ Len(merged) = C5_SumLen(SubSeq(zzz_files, 1, nf))
  /\ (tool = "merge" /\ cpc = "exit" /\ written.is) =>
       /\ nf = Len(zzz_files)
       /\ written.list = C5_Concat(zzz_files)
       /\ Len(written.list) = C5_SumLen(zzz_files)

\* a list file, a file that does not parse and a second list file have been
\* merged and written
C5_Witness ==
  /\ tool = "merge" /\ cpc = "exit" /\ written.is
  /\ Len(zzz_files) = 3
  /\ zzz_files[1].kind = "list" /\ zzz_files[1].items # <<>>
  /\ zzz_files[2].kind = "bad"
  /\ zzz_files[3].kind = "list" /\ zzz_files[3].items # <<>>
  /\ zzz_files[1] # zzz_files[3]
  /\ written.list = zzz_files[1].items \o zzz_files[3].items

\* C10 (as claimed): each entry point ends with exit status 1 when its input
\* path or file does not exist or its required input cannot be parsed, merge
\* ends with exit status 0 when the path exists and no matching file is
\* found, and in none of these cases is an output file written.
C10_ExitStatus ==
  cpc = "exit" =>
    /\ (\/ path.kind = "missing"
        \/ (tool \in {"keyword", "rink"} /\ path.kind = "file"
              /\ path.content.kind = "bad"))
         => (status = 1 /\ ~written.is)
    /\ (tool = "merge" /\ path.kind # "missing" /\ find_zzz_files(path) = <<>>)
         => (status = 0 /\ ~written.is)

\* ------------------------------------------------------------------------
\* convert-to-rink: what is written for the records of the input file
\* ------------------------------------------------------------------------
\* the records of the input file that process_item converts, in file order;
\* record i of them is written as element i of the output
RinkKept == SelectSeq(path.content.items, IsRinkItem)
RinkDone == tool = "rink" /\ cpc = "exit" /\ written.is

\* N is a digit sequence and desc contains 花费, whitespace or none, N,
\* whitespace or none, 恐惧点
C11_HasPhrase(desc, N) ==
  /\ N # <<>>
  /\ \A x \in 1..Len(N) : N[x] \in DigitSet
  /\ \E i \in 1..Len(desc) : \E a \in 0..Len(desc) : \E b \in 0..Len(desc) :
       LET pn == i + Len(HuaFei) + a
           pb == pn + Len(N)
           pk == pb + b
       IN /\ pk + Len(KongJuDian) - 1 <= Len(desc)
          /\ SubSeq(desc, i, i + Len(HuaFei) - 1) = HuaFei
          /\ \A x \in (i + Len(HuaFei))..(pn - 1) : desc[x] \in WhiteSpace
          /\ SubSeq(desc, pn, pb - 1) = N
          /\ \A x \in pb..(pk - 1) : desc[x] \in WhiteSpace
          /\ SubSeq(desc, pk, pk + Len(KongJuDian) - 1) = KongJuDian

\* the digit sequences N for which desc contains the phrase
C11_Numbers(desc) ==
  {N \in {SubSeq(desc, x, y) : x \in 1..Len(desc), y \in 1..Len(desc)} :
     C11_HasPhrase(desc, N)}

C11_TraitOk(trait, new_trait) ==
  LET desc == Get(trait, "texingmiaoshu", EmptyStr).s
  IN /\ new_trait["desc"] = Get(trait, "texingmiaoshu", EmptyStr)
     /\ IF C11_Numbers(desc) = {}
        THEN new_trait["fear"] = BoolV(FALSE) /\ new_trait["cost"] = Str(<<"0">>)
        ELSE /\ new_trait["fear"] = BoolV(TRUE)
             /\ \E N \in C11_Numbers(desc) : new_trait["cost"] = Str(N)

\* C11: for every environment record of the input, the traits written are as
\* many as the record's traits and in their order, and each has fear = true
\* and cost = N when its 特性描述 contains the phrase 花费 N 恐惧点 for a digit
\* sequence N (whitespace or none around N), and fear = false and cost = "0"
\* when it contains no such phrase.
C11_FearAndCost ==
  RinkDone =>
    \A i \in 1..Len(RinkKept) :
      Get(RinkKept[i], "leixing", EmptyStr) = HuanJing =>
        LET traits == TraitsOf(RinkKept[i])
            new == written.list[i]["traits"].m
        IN /\ Len(new) = Len(traits)
           /\ \A x \in 1..Len(traits) : C11_TraitOk(traits[x], new[x])

\* an environment of two traits is written: the first costs 12 fear, found
\* after whitespace, the second has no phrase
C11_Witness ==
  /\ RinkDone
  /\ Len(RinkKept) = 1
  /\ Get(RinkKept[1], "leixing", EmptyStr) = HuanJing
  /\ Len(written.list[1]["traits"].m) = 2
  /\ written.list[1]["traits"].m[1]["fear"] = BoolV(TRUE)
  /\ written.list[1]["traits"].m[1]["cost"] = Str(<<"1", "2">>)
  /\ written.list[1]["traits"].m[2]["fear"] = BoolV(FALSE)
  /\ written.list[1]["traits"].m[2]["cost"] = Str(<<"0">>)

\* a phrase that does not start the description is found
C11_WitnessLater ==
  /\ RinkDone
  /\ Len(RinkKept) = 1
  /\ Get(RinkKept[1], "leixing", EmptyStr) = HuanJing
  /\ Len(written.list[1]["traits"].m) = 1
  /\ written.list[1]["traits"].m[1]["fear"] = BoolV(TRUE)
  /\ Head(written.list[1]["traits"].m[1]["desc"].s) = "x"

\* the text of a field of an adversary: "" when the record has no such key
C12_Text(src, k) == StrOf(Get(src, k, EmptyStr))

C12_EnemyOk(src, dest) ==
  LET heavy == C12_Text(src, "zhongdushanghaiyuzhi")
      severe == C12_Text(src, "yanzhongshanghaiyuzhi")
      th == dest["threshold"].s
      bonus == Get(src, "gongjimingzhong", EmptyStr)
  IN /\ dest["threshold"].t = "str"
     /\ Len(th) = Len(heavy) + 1 + Len(severe)
     /\ SubSeq(th, 1, Len(heavy)) = heavy
     /\ th[Len(heavy) + 1] = Slash
     /\ SubSeq(th, Len(heavy) + 2, Len(th)) = severe
     /\ IF bonus.t = "str" /\ bonus.s # <<>> /\ Head(bonus.s) = Plus
        THEN /\ dest["attackBonus"].t = "str"
             /\ <<Plus>> \o dest["attackBonus"].s = bonus.s
        ELSE dest["attackBonus"] = bonus

\* C12: for every adversary record of the input, the threshold written is
\* the 重度伤害阈值 value, a '/', then the 严重伤害阈值 value, and the
\* attackBonus written is the 攻击命中 text without its leading '+', or that
\* text unchanged when it does not begin with '+'.
C12_ThresholdAndBonus ==
  RinkDone =>
    \A i \in 1..Len(RinkKept) :
      Get(RinkKept[i], "leixing", EmptyStr) = DiRen =>
        C12_EnemyOk(RinkKept[i], written.list[i])

\* an adversary with thresholds "5" and "11" and attack bonus "+3" is
\* written with threshold "5/11" and attackBonus "3"
C12_Witness ==
  /\ RinkDone
  /\ Len(RinkKept) = 1
  /\ Get(RinkKept[1], "leixing", EmptyStr) = DiRen
  /\ Get(RinkKept[1], "gongjimingzhong", EmptyStr) = Str(<<Plus, "3">>)
  /\ written.list[1]["threshold"] = Str(<<"5", "/", "1", "1">>)
  /\ written.list[1]["attackBonus"] = Str(<<"3">>)

\* ------------------------------------------------------------------------
\* extract-keywords: the summaries written for the records of the input file
\* ------------------------------------------------------------------------
KeywordDone == tool = "keyword" /\ cpc = "exit" /\ written.is

\* the 'key:value' lines of the fields of d, in field order, that are not
\* 名称, 类型, 原名, 背景问题 or 关系问题
C13_Left(d) ==
  SelectSeq(d, LAMBDA f : f[1] \notin {"mingcheng", "leixing", "yuanming",
                                        "beijingwenti", "guanxiwenti"})
C13_Lines(d) ==
  [i \in 1..Len(C13_Left(d)) |->
     <<C13_Left(d)[i][1], Colon>> \o StrOf(C13_Left(d)[i][2])]
RECURSIVE C13_Join(_)
C13_Join(lines) ==
  IF lines = <<>> THEN <<>>
  ELSE IF Len(lines) = 1 THEN lines[1]
  ELSE lines[1] \o <<NL>> \o C13_Join(Tail(lines))

\* keyword and category of the summary of record d
C13_Head(d, summary) ==
  /\ HasKey(d, "mingcheng") => summary["keyword"] = GetField(d, "mingcheng", EmptyStr)
  /\ HasKey(d, "leixing") =>
       summary["category"] =
         IF GetField(d, "leixing", EmptyStr) = LingYuKa
         THEN Str(LingYuKa.s \o <<Dash>> \o GetField(d, "lingyu", EmptyStr).s)
         ELSE GetField(d, "leixing", EmptyStr)

\* C13 (as claimed): work returns one summary per input record, in input
\* order; the keyword is the record's 名称, the category its 类型 (for 领域卡
\* the 类型, '-' and the 领域 value), and the description is the
\* newline-joined 'key:value' lines of the remaining fields in field order,
\* with no line for 名称, 类型, 原名, 背景问题 or 关系问题.
C13_SummaryIsJoinedLines ==
  KeywordDone =>
    /\ Len(written.list) = Len(path.content.items)
    /\ \A i \in 1..Len(written.list) :
         /\ C13_Head(path.content.items[i], written.list[i])
         /\ written.list[i]["description"].s
              = C13_Join(C13_Lines(path.content.items[i]))

\* C13 (amended): as claimed, but the description is the newline-joined
\* block of those lines with the whitespace at its two ends removed.
C13_SummaryIsStrippedLines ==
  KeywordDone =>
    /\ Len(written.list) = Len(path.content.items)
    /\ \A i \in 1..Len(written.list) :
         /\ C13_Head(path.content.items[i], written.list[i])
         /\ written.list[i]["description"].s
              = Strip(C13_Join(C13_Lines(path.content.items[i])))

\* two records are summarised in order: a 领域卡 of domain m whose
\* description has three lines, then a record whose last value ends in a
\* newline, which the description does not keep
C13_Witness ==
  /\ KeywordDone
  /\ Len(written.list) = 2
  /\ written.list[1]["category"] = Str(LingYuKa.s \o <<Dash, "m">>)
  /\ written.list[1]["description"]
       = Str(<<"lingyu", Colon, "m", NL, "miaoshu", Colon, "d", NL, "dengji", Colon, "1">>)
  /\ written.list[2]["keyword"] = Str(<<"b">>)
  /\ written.list[2]["description"]
       = Str(<<"dengji", Colon, "1", NL, "miaoshu", Colon, "d", NL, "e">>)

\* ------------------------------------------------------------------------
\* work_zzz: the identifiers of the entries
\* ------------------------------------------------------------------------
\* the entries of the six category lists of the package under construction
C14_Entries ==
  dict_out.profession \o dict_out.ancestry \o dict_out.community
  \o dict_out.subclass \o dict_out.domain \o dict_out.variant

RECURSIVE C14_Calls(_)
C14_Calls(rs) == IF rs = <<>> THEN 0 ELSE IdsMinted(Head(rs)) + C14_Calls(Tail(rs))

\* the identifiers gen_uuid has returned during the running call
C14_Minted == {gen_uuid(n) : n \in (nextId - C14_Calls(C7_Seen))..(nextId - 1)}

\* C14 (as claimed): gen_uuid never returning a value twice, every entry of
\* the six category lists of work_zzz's package carries an id minted during
\* that call: no two entries share an id and no id is an input record's.
C14_IdsAreMinted ==
  pc = "zzz" =>
    /\ \A i \in 1..Len(C14_Entries) : C14_Entries[i]["id"] \in C14_Minted
    /\ \A i, k \in 1..Len(C14_Entries) :
         C14_Entries[i]["id"] = C14_Entries[k]["id"] => i = k

====
